---- MODULE Spec2Model ----
(***************************************************************************)
(* Zomoc: the axios request interceptor (src/src/interceptor.ts), the      *)
(* value synthesizer (src/src/generator.ts) and the registry they consume. *)
(*                                                                         *)
(* JavaScript values are tagged records ([t |-> "num", n |-> 5], ...), so  *)
(* that values of different types can be compared.  Math.random() is a     *)
(* draw k \in 0..RandSteps-1 standing for the real number k/RandSteps.     *)
(***************************************************************************)
EXTENDS Integers, Sequences, FiniteSets, TLC

\* ------------------------------------------------------------------ bounds
RandSteps == 3
MaxRepeat == 5
MaxEntries == 2
MaxFlights == 2

\* --------------------------------------------------------------- JS values
Undefined == [t |-> "undef"]
JsNum(n) == [t |-> "num", n |-> n]
JsStr(s) == [t |-> "str", s |-> s]
JsBool(b) == [t |-> "bool", b |-> b]
JsArr(items) == [t |-> "arr", items |-> items]
JsObj(f) == [t |-> "obj", f |-> f]

\* typeof v === "number"
IsNumber(v) == v.t = "num"

\* d ?? v: the operands of ?? in the wrong order
CoalesceDefaultFirst(v, d) == IF d = Undefined THEN v ELSE d

\* v ?? d
Coalesce(v, d) == IF v = Undefined THEN d ELSE v

\* the draws of Math.random()
Random == 0 .. (RandSteps - 1)

\* Math.floor(Math.random() * n) for the draw k
RandomIndex(k, n) == (k * n) \div RandSteps

\* the set of sequences s with s[i] \in sets[i]
RECURSIVE SeqProduct(_)
SeqProduct(sets) ==
  IF Len(sets) = 0 THEN {<<>>}
  ELSE {<<h>> \o r : h \in Head(sets), r \in SeqProduct(Tail(sets))}

\* ------------------------------------------------------------ schema nodes
ZString == [kind |-> "ZodString"]
ZNumber == [kind |-> "ZodNumber"]
ZBoolean == [kind |-> "ZodBoolean"]
ZDate == [kind |-> "ZodDate"]
ZLiteral(v) == [kind |-> "ZodLiteral", value |-> v]
ZArray(e) == [kind |-> "ZodArray", element |-> e]
ZObject(shape) == [kind |-> "ZodObject", shape |-> shape]
ZOptional(e) == [kind |-> "ZodOptional", innerType |-> e]
ZNullable(e) == [kind |-> "ZodNullable", innerType |-> e]
ZEffects(e) == [kind |-> "ZodEffects", schema |-> e]
ZRecord(e) == [kind |-> "ZodRecord", valueType |-> e]
ZTuple(items) == [kind |-> "ZodTuple", items |-> items]
ZEnum(options) == [kind |-> "ZodEnum", options |-> options]

\* The object a TypeScript enum compiles to: member name -> value, and for a
\* numeric member also value -> member name.
EnumObject(members) ==
  [p \in {members[i].name : i \in 1..Len(members)}
          \cup {ToString(members[i].value.n) :
                  i \in {j \in 1..Len(members) : members[j].value.t = "num"}} |->
     IF \E i \in 1..Len(members) : members[i].name = p
     THEN members[CHOOSE i \in 1..Len(members) : members[i].name = p].value
     ELSE [t |-> "str",
           s |-> members[CHOOSE i \in 1..Len(members) :
                           members[i].value.t = "num" /\ ToString(members[i].value.n) = p].name]]

\* one member of an enum declaration
Member(name, value) == [name |-> name, value |-> value]

\* z.nativeEnum(E): _def.values is the enum object E itself
ZNativeEnum(members) ==
  [kind |-> "ZodNativeEnum", members |-> members, values |-> EnumObject(members)]
ZUnion(options) == [kind |-> "ZodUnion", options |-> options]
ZDiscriminatedUnion(options) == [kind |-> "ZodDiscriminatedUnion", options |-> options]
ZIntersection(l, r) == [kind |-> "ZodIntersection", left |-> l, right |-> r]
ZUnknown == [kind |-> "ZodBigInt"]

\* one field of an object shape, in declaration order
Field(name, schema) == [name |-> name, schema |-> schema]

\* schema.shape[name]
ShapeField(schema, name) ==
  IF \E i \in 1..Len(schema.shape) : schema.shape[i].name = name
  THEN schema.shape[CHOOSE i \in 1..Len(schema.shape) : schema.shape[i].name = name].schema
  ELSE Undefined

\* ------------------------------------------------------------- field keys
\* The key handed down by the synthesizer: a field name followed by the
\* array indices appended as `${key}[${i}]`.
Key(name) == [name |-> name, idx |-> <<>>]
KeyAt(key, i) == [name |-> key.name, idx |-> Append(key.idx, i)]

PasswordNames == {"password"}
UrlNames == {"avatarUrl"}

\* --------------------------------------------------------- random helpers
PasswordMask == "********"
UrlPrefix == "https://example.com/mock-path/"
TextPrefix == "temp text: "
NumberBase == 1000
NumberSpan == 9000

getRandomString(key, k) ==
  IF key.name \in PasswordNames THEN [t |-> "str", s |-> PasswordMask]
  ELSE IF key.name \in UrlNames THEN [t |-> "str", s |-> UrlPrefix, rnd |-> k]
  ELSE [t |-> "str", s |-> TextPrefix, rnd |-> k]

getRandomNumber(k) == JsNum(NumberBase + (k * NumberSpan) \div RandSteps)

getRandomBoolean(k) == JsBool(2 * k > RandSteps)

getRandomDateTime == [t |-> "str", s |-> "now.toISOString()"]

\* ------------------------------------------------------- custom generators
NoGenerators == [string |-> FALSE, number |-> FALSE, boolean |-> FALSE, dateTime |-> FALSE]
HookNumber == 7
\* customGenerators.string called without the field name
HookStringUnnamed(key) == [t |-> "str", s |-> "hook", key |-> [name |-> "", idx |-> <<>>]]
HookString(key) == [t |-> "str", s |-> "hook", key |-> key]
HookBoolean == JsBool(TRUE)
HookDateTime == [t |-> "str", s |-> "hook date"]

\* { ...v }: the own enumerable properties of v
Spread(v) ==
  IF v.t = "obj" THEN v.f
  ELSE IF v.t = "arr" THEN [i \in {ToString(j - 1) : j \in 1..Len(v.items)} |->
                             v.items[CHOOSE j \in 1..Len(v.items) : ToString(j - 1) = i]]
  ELSE <<>>

\* { ...r, ...l }: the spreads in the wrong order
MergeObjectsLeftLast(l, r) ==
  [name \in (DOMAIN Spread(l)) \cup (DOMAIN Spread(r)) |->
     IF name \in DOMAIN Spread(l) THEN Spread(l)[name] ELSE Spread(r)[name]]

\* { ...l, ...r }
MergeObjects(l, r) ==
  [name \in (DOMAIN Spread(l)) \cup (DOMAIN Spread(r)) |->
     IF name \in DOMAIN Spread(r) THEN Spread(r)[name] ELSE Spread(l)[name]]

Unhandled == JsStr("unhandled zod type")

\* values[name] on an object
Property(values, name) == IF name \in DOMAIN values THEN values[name] ELSE Undefined

\* the property name Math.floor(Math.random() * values.length) stands for:
\* NaN when values.length is not a number
IndexName(k, length) ==
  IF IsNumber(length) THEN ToString(RandomIndex(k, length.n)) ELSE "NaN"

\* the item count of an array node
ItemCounts(repeatCount) ==
  IF IsNumber(repeatCount) THEN {IF repeatCount.n < 0 THEN 0 ELSE repeatCount.n}
  ELSE {RandomIndex(k, 3) + 1 : k \in Random}

\* the repeatCount argument of the recursive call for an array's items
ItemRepeatCountInherited(repeatCount) == repeatCount
ItemRepeatCount(repeatCount) == Undefined

\* the object built from the values of the fields of a shape
ObjectOf(shape, vals) ==
  JsObj([name \in {shape[i].name : i \in 1..Len(shape)} |->
           vals[CHOOSE i \in 1..Len(shape) : shape[i].name = name]])

\* The set of values createMockDataFromZodSchema can return.
RECURSIVE createMockDataFromZodSchema(_, _, _, _, _, _)
createMockDataFromZodSchema(schema, key, customGenerators, repeatCount, seed, strategy) ==
  IF schema.kind \in {"ZodOptional", "ZodNullable"} THEN
    createMockDataFromZodSchema(schema.innerType, key, customGenerators, repeatCount, seed, strategy)
  ELSE IF "schema" \in DOMAIN schema THEN
    createMockDataFromZodSchema(schema.schema, key, customGenerators, repeatCount, seed, strategy)
  ELSE IF schema.kind = "ZodArray" THEN
    UNION { { JsArr(items) : items \in SeqProduct(
                [i \in 1..itemCount |->
                   createMockDataFromZodSchema(schema.element, KeyAt(key, i - 1), customGenerators,
                                               ItemRepeatCount(repeatCount),
                                               seed * itemCount + (i - 1), strategy)]) }
            : itemCount \in ItemCounts(repeatCount) }
  ELSE IF schema.kind = "ZodObject" THEN
    { ObjectOf(schema.shape, vals) : vals \in SeqProduct(
        [i \in 1..Len(schema.shape) |->
           createMockDataFromZodSchema(schema.shape[i].schema, Key(schema.shape[i].name),
                                       customGenerators, repeatCount, seed, strategy)]) }
  ELSE IF schema.kind = "ZodRecord" THEN
    { JsObj([key1 |-> v1, key2 |-> v2]) :
        v1 \in createMockDataFromZodSchema(schema.valueType, Key("key1"), customGenerators,
                                           repeatCount, seed, strategy),
        v2 \in createMockDataFromZodSchema(schema.valueType, Key("key2"), customGenerators,
                                           repeatCount, seed, strategy) }
  ELSE IF schema.kind = "ZodString" THEN
    IF customGenerators.string THEN {HookString(key)}
    ELSE {getRandomString(key, k) : k \in Random}
  ELSE IF schema.kind = "ZodNumber" THEN
    IF customGenerators.number THEN {JsNum(HookNumber)}
    ELSE {getRandomNumber(k) : k \in Random}
  ELSE IF schema.kind = "ZodBoolean" THEN
    IF customGenerators.boolean THEN {HookBoolean}
    ELSE {getRandomBoolean(k) : k \in Random}
  ELSE IF schema.kind = "ZodDate" THEN
    IF customGenerators.dateTime THEN {HookDateTime}
    ELSE {getRandomDateTime}
  ELSE IF schema.kind = "ZodNativeEnum" THEN
    \* a ZodNativeEnum has no getValues method: values is def.values
    IF strategy = "fixed" THEN {Property(schema.values, "0")}
    ELSE {Property(schema.values, IndexName(k, Property(schema.values, "length"))) : k \in Random}
  ELSE IF schema.kind = "ZodTuple" THEN
    { JsArr(items) : items \in SeqProduct(
        [i \in 1..Len(schema.items) |->
           createMockDataFromZodSchema(schema.items[i], KeyAt(key, i - 1), customGenerators,
                                       repeatCount, seed, strategy)]) }
  ELSE IF schema.kind = "ZodEnum" THEN
    IF strategy = "fixed" THEN {schema.options[1]}
    ELSE {schema.options[RandomIndex(k, Len(schema.options)) + 1] : k \in Random}
  ELSE IF schema.kind = "ZodLiteral" THEN
    {schema.value}
  ELSE IF schema.kind = "ZodUnion" THEN
    IF strategy = "fixed" THEN
      createMockDataFromZodSchema(schema.options[1], key, customGenerators, repeatCount, seed, strategy)
    ELSE
      UNION { createMockDataFromZodSchema(schema.options[RandomIndex(k, Len(schema.options)) + 1],
                                          key, customGenerators, repeatCount, seed, strategy)
              : k \in Random }
  ELSE IF schema.kind = "ZodDiscriminatedUnion" THEN
    IF Len(schema.options) = 0 THEN {Unhandled}
    ELSE IF strategy = "fixed" THEN
      createMockDataFromZodSchema(schema.options[1], key, customGenerators, repeatCount, seed, strategy)
    ELSE
      UNION { createMockDataFromZodSchema(schema.options[RandomIndex(k, Len(schema.options)) + 1],
                                          key, customGenerators, repeatCount, seed, strategy)
              : k \in Random }
  ELSE IF schema.kind = "ZodIntersection" THEN
    { JsObj(MergeObjects(l, r)) :
        l \in createMockDataFromZodSchema(schema.left, key, customGenerators, repeatCount, seed, strategy),
        r \in createMockDataFromZodSchema(schema.right, key, customGenerators, repeatCount, seed, strategy) }
  ELSE {Unhandled}

\* ------------------------------------------------------------- registry
\* A registry key "METHOD pattern" is the sequence of its space-separated
\* parts; the pattern part is the sequence of its "/"-separated tokens.
Text(s) == [type |-> "text", name |-> s]
Param(n) == [type |-> "param", name |-> n]
RouteKey(method, pattern) == <<method, pattern>>

\* RegistryValue as the registry generator emits it
RegistryValue(schema, responseBody, status, pagination, strategy, repeatCount) ==
  [schema |-> schema, responseBody |-> responseBody, status |-> status,
   pagination |-> pagination, strategy |-> strategy, repeatCount |-> repeatCount]

Pagination(itemsKey, totalKey, pageKey, sizeKey) ==
  [itemsKey |-> itemsKey, totalKey |-> totalKey, pageKey |-> pageKey, sizeKey |-> sizeKey]

Entry(key, value) == [key |-> key, value |-> value]

NoRegistry == [present |-> FALSE, entries |-> <<>>]
RegistryOf(entries) == [present |-> TRUE, entries |-> entries]

\* ----------------------------------------------------------------- urls
\* A url "/a/b?q" is its "/"-separated segments and its query string.
Url(segs, query) == [present |-> TRUE, segs |-> segs, query |-> query]
EmptyUrl == [present |-> FALSE, segs |-> <<>>, query |-> ""]

\* String.prototype.toUpperCase on the method names in use
toUpperCase(s) ==
  IF s = "get" THEN "GET" ELSE IF s = "post" THEN "POST" ELSE s

\* String.prototype.toLowerCase on the path texts in use
toLowerCase(s) ==
  IF s = "Users" THEN "users" ELSE s

\* decodeURIComponent on the path texts in use
decodeURIComponent(s) ==
  IF s = "a%20b" THEN "a b" ELSE s

\* the text between the i-th "/" and the next "/" (or the end) of the url
PieceText(url, i) ==
  IF i = Len(url.segs) /\ url.query # ""
  THEN url.segs[i] \o "?" \o url.query
  ELSE url.segs[i]

NoMatch == [matched |-> FALSE]

\* match(pattern, { decode: decodeURIComponent })(url) of path-to-regexp 8:
\* the regular expression ^(?:/tok/tok...)$ with flag i, a text token matching
\* itself and a :param token matching [^/]+
match(pattern, url) ==
  IF /\ Len(url.segs) = Len(pattern)
     /\ \A i \in 1..Len(pattern) :
          pattern[i].type = "text" =>
            toLowerCase(PieceText(url, i)) = toLowerCase(pattern[i].name)
  THEN [matched |-> TRUE,
        params |-> [n \in {pattern[i].name : i \in {j \in 1..Len(pattern) : pattern[j].type = "param"}} |->
                      decodeURIComponent(PieceText(url,
                        CHOOSE i \in 1..Len(pattern) : pattern[i].type = "param" /\ pattern[i].name = n))]]
  ELSE NoMatch

\* EntryMatches without the `continue` on a method mismatch
EntryMatchesAnyMethod(entry, requestMethod, url) ==
  /\ Len(entry.key) >= 2
  /\ match(entry.key[2], url).matched

\* one round of the for-in loop: does the entry pass both `continue`s and match?
EntryMatches(entry, requestMethod, url) ==
  /\ Len(entry.key) >= 2
  /\ requestMethod = toUpperCase(entry.key[1])
  /\ match(entry.key[2], url).matched

\* ScanRegistry without the `break`: the last matching entry wins
RECURSIVE ScanRegistryNoBreak(_, _, _, _)
ScanRegistryNoBreak(entries, i, requestMethod, url) ==
  IF i > Len(entries) THEN 0
  ELSE LET later == ScanRegistryNoBreak(entries, i + 1, requestMethod, url)
       IN IF later # 0 THEN later
          ELSE IF EntryMatches(entries[i], requestMethod, url) THEN i ELSE 0

\* the for-in loop: the index of the entry at which the loop breaks, 0 if none
RECURSIVE ScanRegistry(_, _, _, _)
ScanRegistry(entries, i, requestMethod, url) ==
  IF i > Len(entries) THEN 0
  ELSE IF EntryMatches(entries[i], requestMethod, url) THEN i
  ELSE ScanRegistry(entries, i + 1, requestMethod, url)

\* ------------------------------------------------------------- requests
DefaultAdapter == [kind |-> "default"]

Config(url, method, params, data) ==
  [url |-> url, method |-> method, params |-> params, data |-> data,
   adapter |-> DefaultAdapter]

\* obj?.[key]
Get(obj, key) ==
  IF obj.t # "obj" THEN Undefined
  ELSE IF key \in DOMAIN obj.f THEN obj.f[key] ELSE Undefined

\* a parameter's default value: `strategy = "random"`
StrategyArg(strategy) == IF strategy = Undefined THEN "random" ELSE strategy.s

\* an object literal with computed keys, later keys overriding earlier ones
RECURSIVE ObjectLiteral(_)
ObjectLiteral(pairs) ==
  IF Len(pairs) = 0 THEN <<>>
  ELSE LET init == ObjectLiteral(SubSeq(pairs, 1, Len(pairs) - 1))
           last == pairs[Len(pairs)]
       IN [k \in (DOMAIN init) \cup {last[1]} |-> IF k = last[1] THEN last[2] ELSE init[k]]

DummyTotal == 100
DefaultPage == 1
DefaultSize == 10

Threw == [threw |-> TRUE]
Returned(data) == [threw |-> FALSE, data |-> data]

\* PaginatedMockData with a total that counts the items up to the page
PaginatedMockDataCounting(value, config, customGenerators) ==
  LET pagination == value.pagination
      pageKey == Coalesce(pagination.pageKey, JsStr("page")).s
      sizeKey == Coalesce(pagination.sizeKey, JsStr("size")).s
      page == Coalesce(Get(config.params, pageKey), Coalesce(Get(config.data, pageKey), JsNum(DefaultPage)))
      size == Coalesce(Get(config.params, sizeKey), Coalesce(Get(config.data, sizeKey), JsNum(DefaultSize)))
  IN IF value.schema = Undefined THEN {Threw}
     ELSE IF "shape" \notin DOMAIN value.schema THEN {Threw}
     ELSE IF ShapeField(value.schema, pagination.itemsKey) = Undefined THEN {Threw}
     ELSE { Returned(JsObj(ObjectLiteral(<< <<pagination.itemsKey, pageData>>,
                                            <<pagination.totalKey, JsNum(Len(pageData.items) * (IF IsNumber(page) THEN page.n ELSE 1))>>,
                                            <<pageKey, page>> >>))) :
              pageData \in createMockDataFromZodSchema(
                             ShapeField(value.schema, pagination.itemsKey), Key(""), customGenerators,
                             size, IF IsNumber(page) THEN page.n ELSE 0, StrategyArg(value.strategy)) }

\* the paginated branch of onFulfilled
PaginatedMockData(value, config, customGenerators) ==
  LET pagination == value.pagination
      pageKey == Coalesce(pagination.pageKey, JsStr("page")).s
      sizeKey == Coalesce(pagination.sizeKey, JsStr("size")).s
      page == Coalesce(Get(config.params, pageKey), Coalesce(Get(config.data, pageKey), JsNum(DefaultPage)))
      size == Coalesce(Get(config.params, sizeKey), Coalesce(Get(config.data, sizeKey), JsNum(DefaultSize)))
  IN IF value.schema = Undefined THEN {Threw}
     ELSE IF "shape" \notin DOMAIN value.schema THEN {Threw}
     ELSE IF ShapeField(value.schema, pagination.itemsKey) = Undefined THEN {Threw}
     ELSE { Returned(JsObj(ObjectLiteral(<< <<pagination.itemsKey, pageData>>,
                                            <<pagination.totalKey, JsNum(DummyTotal)>>,
                                            <<pageKey, page>> >>))) :
              pageData \in createMockDataFromZodSchema(
                             ShapeField(value.schema, pagination.itemsKey), Key(""), customGenerators,
                             size, IF IsNumber(page) THEN page.n ELSE 0, StrategyArg(value.strategy)) }

\* the non-paginated branch of onFulfilled
PlainMockData(value, customGenerators) ==
  IF value.schema = Undefined THEN {Threw}
  ELSE { Returned(d) : d \in createMockDataFromZodSchema(
                               value.schema, Key(""), customGenerators,
                               value.repeatCount, 0, StrategyArg(value.strategy)) }

\* the mock data of a matched entry
MockData(value, config, customGenerators) ==
  IF value.pagination # Undefined
  THEN PaginatedMockData(value, config, customGenerators)
  ELSE PlainMockData(value, customGenerators)

\* the adapter installed on a match; calling it resolves with this response
MockAdapter(mockData) ==
  [kind |-> "mock",
   response |-> [data |-> mockData, status |-> 200, statusText |-> "OK",
                 mocked |-> TRUE]]

\* the console output of one mocked request
DebugLog(debug, isServer, requestMethod, url, entry, params, mockData) ==
  IF ~debug THEN <<>>
  ELSE << [line |-> "Mocked Request", method |-> requestMethod, url |-> url],
          [line |-> "Pattern", key |-> entry.key] >>
       \o (IF DOMAIN params # {} THEN << [line |-> "Matched Params", params |-> params] >> ELSE <<>>)
       \o << [line |-> "Generated Mock Data", data |-> mockData] >>
       \o (IF isServer THEN <<>> ELSE << [line |-> "Used Zod Schema", schema |-> entry.value.schema] >>)

\* what onFulfilled returns when it hands the request on untouched
PassThrough(config) == config

\* The results of one run of onFulfilled(config): the configuration it
\* resolves with, or the exception it rejects with.
onFulfilled(opts, config) ==
  IF ~config.url.present \/ config.method = "" THEN
    {[threw |-> FALSE, config |-> PassThrough(config), matched |-> 0, log |-> <<>>]}
  ELSE
    LET requestMethod == toUpperCase(config.method)
        i == ScanRegistry(opts.registry.entries, 1, requestMethod, config.url)
    IN IF i = 0 THEN
         {[threw |-> FALSE, config |-> PassThrough(config), matched |-> 0, log |-> <<>>]}
       ELSE
         LET entry == opts.registry.entries[i]
         IN { IF r.threw
              THEN [threw |-> TRUE, config |-> config, matched |-> i, log |-> <<>>]
              ELSE [threw |-> FALSE,
                    config |-> [config EXCEPT !.adapter = MockAdapter(r.data)],
                    matched |-> i,
                    log |-> DebugLog(opts.debug, opts.isServer, requestMethod, config.url, entry,
                                     match(entry.key[2], config.url).params, r.data)]
              : r \in MockData(entry.value, config, opts.customGenerators) }

\* what calling config.adapter(config) leads to
Dispatch(config) ==
  IF config.adapter.kind = "mock"
  THEN [kind |-> "resolved", response |-> config.adapter.response]
  ELSE [kind |-> "network"]

\* ------------------------------------------------- schemas and registries
\* interface.ts of the README examples
Tag == ZObject(<<Field("id", ZNumber), Field("label", ZLiteral(JsStr("tag")))>>)
TagList == ZArray(Tag)
Album == ZObject(<<Field("title", ZLiteral(JsStr("album"))),
                   Field("tracks", ZArray(ZLiteral(JsStr("track"))))>>)
UserProfile == ZObject(<<Field("name", ZString), Field("password", ZString)>>)
MyProfile == ZObject(<<Field("me", ZLiteral(JsBool(TRUE)))>>)
UserPage == ZObject(<<Field("users", ZArray(ZLiteral(JsStr("user")))),
                      Field("total", ZNumber), Field("page", ZNumber)>>)
ErrorBody == JsObj([message |-> JsStr("not found")])

UsersPagination == Pagination("users", "total", Undefined, Undefined)

\* "GET /users/:id": "UserProfile" and "GET /users/me": "MyProfile"
RouteUserById ==
  Entry(RouteKey("GET", <<Text("users"), Param("id")>>),
        RegistryValue(UserProfile, Undefined, 200, Undefined, JsStr("random"), Undefined))
RouteUsersMe ==
  Entry(RouteKey("GET", <<Text("users"), Text("me")>>),
        RegistryValue(MyProfile, Undefined, 200, Undefined, JsStr("random"), Undefined))

\* the entries a generated registry is made of
Catalog ==
  { RouteUserById, RouteUsersMe,
    Entry(RouteKey("get", <<Text("tags")>>),
          RegistryValue(TagList, ErrorBody, 404, Undefined, JsStr("fixed"), JsNum(2))),
    Entry(RouteKey("POST", <<Text("users")>>),
          RegistryValue(UserPage, Undefined, 201, UsersPagination, JsStr("random"), Undefined)),
    Entry(RouteKey("GET", <<Text("health")>>),
          RegistryValue(Undefined, Undefined, 200, Undefined, JsStr("random"), Undefined)),
    Entry(RouteKey("POST", <<Text("tags")>>),
          RegistryValue(TagList, Undefined, 200, UsersPagination, JsStr("random"), Undefined)),
    Entry(<<"tags">>,
          RegistryValue(TagList, Undefined, 200, Undefined, JsStr("random"), Undefined)) }

\* an object has one value per key
Registries ==
  { RegistryOf(entries) : entries \in
      { e \in UNION { [1..n -> Catalog] : n \in 0..MaxEntries } :
          \A i, j \in 1..Len(e) : e[i].key = e[j].key => i = j } }

AllGenerators == [string |-> TRUE, number |-> TRUE, boolean |-> TRUE, dateTime |-> TRUE]

\* the options setupMockingInterceptor is called with
SetupOptions ==
  [enabled : {Undefined, JsBool(TRUE), JsBool(FALSE)},
   registry : Registries \cup {NoRegistry},
   debug : BOOLEAN,
   customGenerators : {NoGenerators, AllGenerators}]

RequestUrls ==
  { Url(<<"users", "me">>, ""), Url(<<"users", "me">>, "k=v"),
    Url(<<"Users", "a%20b">>, ""),
    Url(<<"tags">>, ""), Url(<<"tags">>, "k=v"),
    Url(<<"users">>, ""), Url(<<"health">>, ""),
    Url(<<"other">>, "") }

\* the request configurations the application issues
Requests ==
  { Config(u, m, Undefined, Undefined) : u \in RequestUrls, m \in {"GET", "POST"} }
  \cup { Config(EmptyUrl, "GET", Undefined, Undefined),
         Config(Url(<<"tags">>, ""), "get", Undefined, Undefined),
         Config(Url(<<"users", "me">>, ""), "get", Undefined, Undefined),
         Config(Url(<<"tags">>, ""), "", Undefined, Undefined),
         Config(Url(<<"users">>, ""), "post",
                JsObj([page |-> JsNum(2), size |-> JsNum(3)]), Undefined),
         Config(Url(<<"users">>, ""), "post",
                JsObj([size |-> JsStr("3")]), JsObj([page |-> JsNum(3), size |-> JsNum(2)])),
         Config(Url(<<"users">>, ""), "POST",
                Undefined, JsObj([page |-> JsNum(3), size |-> JsNum(0)])) }

\* ------------------------------------------------------------------ state
VARIABLES
  options,      \* the options of setupMockingInterceptor
  installed,    \* onFulfilled is registered on the axios instance
  phase,        \* "new", "idle", "pending" (config awaits its adapter), "done"
  request,      \* the configuration of the current request as issued
  config,       \* the configuration after the request interceptors
  matched,      \* index of the registry entry at which the loop broke, 0 if none
  log,          \* console output of the current request
  outcome,      \* how the current request ended
  call,         \* the arguments of the current direct call of the synthesizer
  result,       \* the value that call returned
  walk,         \* the pending recursive calls of a synthesis in progress
  build,        \* the run of generateRegistryString over the mock files
  flights       \* the requests in flight on an instance used concurrently

vars == <<options, installed, phase, request, config, matched, log, outcome, call, result,
          walk, build, flights>>

NoOptions == [enabled |-> Undefined, registry |-> NoRegistry, debug |-> FALSE,
              customGenerators |-> NoGenerators]
NoOutcome == [kind |-> "none"]
NoCall == [active |-> FALSE]
NoWalk == [active |-> FALSE]
NoBuild == [stage |-> "new"]
NoFlight == [phase |-> "idle", request |-> Config(EmptyUrl, "", Undefined, Undefined),
             config |-> Config(EmptyUrl, "", Undefined, Undefined), matched |-> 0,
             outcome |-> NoOutcome]
NoFlights == [s \in 1..MaxFlights |-> NoFlight]

Init ==
  /\ options = NoOptions
  /\ installed = FALSE
  /\ phase = "new"
  /\ request = Config(EmptyUrl, "", Undefined, Undefined)
  /\ config = Config(EmptyUrl, "", Undefined, Undefined)
  /\ matched = 0
  /\ log = <<>>
  /\ outcome = NoOutcome
  /\ call = NoCall
  /\ result = Undefined
  /\ walk = NoWalk
  /\ build = NoBuild
  /\ flights = NoFlights

\* Enabled without the early return
EnabledAlways(opts) == TRUE

\* `enabled = true` and `if (!enabled) return`
Enabled(opts) == Coalesce(opts.enabled, JsBool(TRUE)).b

\* setupMockingInterceptor(instance, options)
setupMockingInterceptor(opts) ==
  /\ phase = "new"
  /\ options' = opts
  /\ installed' = Enabled(opts)
  /\ phase' = "idle"
  /\ UNCHANGED <<request, config, matched, log, outcome, call, result, walk, build, flights>>

\* instance.request(req) on an instance without the interceptor
RequestWithoutInterceptor(req) ==
  /\ phase = "idle"
  /\ ~installed
  /\ request' = req
  /\ config' = req
  /\ matched' = 0
  /\ log' = <<>>
  /\ outcome' = NoOutcome
  /\ phase' = "pending"
  /\ UNCHANGED <<options, installed, call, result, walk, build, flights>>

\* Intercept on an interceptor whose debug block returns the configuration
\* before the adapter is replaced
InterceptReturningInDebug(req, isServer) ==
  /\ phase = "idle"
  /\ installed
  /\ \E r \in onFulfilled(options @@ [isServer |-> isServer], req) :
       /\ request' = req
       /\ config' = IF options.debug THEN PassThrough(req) ELSE r.config
       /\ matched' = r.matched
       /\ log' = r.log
       /\ IF r.threw
          THEN outcome' = [kind |-> "threw"] /\ phase' = "done"
          ELSE outcome' = NoOutcome /\ phase' = "pending"
  /\ UNCHANGED <<options, installed, call, result, walk, build, flights>>

\* instance.request(req): the request interceptor runs onFulfilled(req)
Intercept(req, isServer) ==
  /\ phase = "idle"
  /\ installed
  /\ \E r \in onFulfilled(options @@ [isServer |-> isServer], req) :
       /\ request' = req
       /\ config' = r.config
       /\ matched' = r.matched
       /\ log' = r.log
       /\ IF r.threw
          THEN outcome' = [kind |-> "threw"] /\ phase' = "done"
          ELSE outcome' = NoOutcome /\ phase' = "pending"
  /\ UNCHANGED <<options, installed, call, result, walk, build, flights>>

\* axios calls config.adapter(config)
CallAdapter ==
  /\ phase = "pending"
  /\ outcome' = Dispatch(config)
  /\ phase' = "done"
  /\ UNCHANGED <<options, installed, request, config, matched, log, call, result, walk, build, flights>>

\* the promise of the request settles and the instance is free for the next one
Settle ==
  /\ phase = "done"
  /\ phase' = "idle"
  /\ request' = Config(EmptyUrl, "", Undefined, Undefined)
  /\ config' = Config(EmptyUrl, "", Undefined, Undefined)
  /\ matched' = 0
  /\ log' = <<>>
  /\ outcome' = NoOutcome
  /\ UNCHANGED <<options, installed, call, result, walk, build, flights>>

Next ==
  \/ \E opts \in SetupOptions : setupMockingInterceptor(opts)
  \/ \E req \in Requests : RequestWithoutInterceptor(req)
  \/ \E req \in Requests, isServer \in BOOLEAN : Intercept(req, isServer)
  \/ CallAdapter
  \/ Settle

Spec == Init /\ [][Next]_vars

\* ------------------------------------- one instance, several requests in flight
\* the registries and requests of an application that issues requests
\* without waiting for the earlier ones
SharedRegistries ==
  {r \in Registries : Len(r.entries) = 2 /\ r.entries[1] = RouteUserById}

SharedOptions ==
  [enabled : {Undefined}, registry : SharedRegistries, debug : BOOLEAN,
   customGenerators : {NoGenerators}]

SharedRequests ==
  { Config(Url(<<"users", "me">>, ""), "GET", Undefined, Undefined),
    Config(Url(<<"users">>, ""), "post", JsObj([page |-> JsNum(2), size |-> JsNum(3)]), Undefined),
    Config(Url(<<"health">>, ""), "GET", Undefined, Undefined),
    Config(Url(<<"other">>, ""), "GET", Undefined, Undefined) }

\* InterceptFlight on an interceptor that reads the registry being generated
InterceptFlightLive(s, req) ==
  /\ phase = "idle"
  /\ installed
  /\ flights[s].phase = "idle"
  /\ LET live == IF build.stage = "loading"
                 THEN [options EXCEPT !.registry = RegistryOf(build.urlMapEntries)]
                 ELSE options
     IN \E r \in onFulfilled(live @@ [isServer |-> FALSE], req) :
          flights' = [flights EXCEPT ![s] =
                        [phase |-> IF r.threw THEN "done" ELSE "pending",
                         request |-> req, config |-> r.config, matched |-> r.matched,
                         outcome |-> IF r.threw THEN [kind |-> "threw"] ELSE NoOutcome]]
  /\ UNCHANGED <<options, installed, phase, request, config, matched, log, outcome,
                 call, result, walk, build>>

\* InterceptFlight on an interceptor that serves every registry entry once
InterceptFlightConsuming(s, req) ==
  /\ phase = "idle"
  /\ installed
  /\ flights[s].phase = "idle"
  /\ \E r \in onFulfilled(options @@ [isServer |-> FALSE], req) :
       /\ flights' = [flights EXCEPT ![s] =
                        [phase |-> IF r.threw THEN "done" ELSE "pending",
                         request |-> req, config |-> r.config, matched |-> r.matched,
                         outcome |-> IF r.threw THEN [kind |-> "threw"] ELSE NoOutcome]]
       /\ options' = [options EXCEPT !.registry.entries =
                        SelectSeq(@, LAMBDA e : r.matched = 0 \/ e # @[r.matched])]
  /\ UNCHANGED <<installed, phase, request, config, matched, log, outcome,
                 call, result, walk, build>>

\* instance.request(req) while other requests are in flight: onFulfilled(req)
\* runs to its end without yielding
InterceptFlight(s, req) ==
  /\ phase = "idle"
  /\ installed
  /\ flights[s].phase = "idle"
  /\ \E r \in onFulfilled(options @@ [isServer |-> FALSE], req) :
       flights' = [flights EXCEPT ![s] =
                     [phase |-> IF r.threw THEN "done" ELSE "pending",
                      request |-> req, config |-> r.config, matched |-> r.matched,
                      outcome |-> IF r.threw THEN [kind |-> "threw"] ELSE NoOutcome]]
  /\ UNCHANGED <<options, installed, phase, request, config, matched, log, outcome,
                 call, result, walk, build>>

\* axios calls the adapter of one of the requests in flight
AdapterFlight(s) ==
  /\ flights[s].phase = "pending"
  /\ flights' = [flights EXCEPT ![s].phase = "done",
                                ![s].outcome = Dispatch(flights[s].config)]
  /\ UNCHANGED <<options, installed, phase, request, config, matched, log, outcome,
                 call, result, walk, build>>

\* the promise of one of the requests settles
SettleFlight(s) ==
  /\ flights[s].phase = "done"
  /\ flights' = [flights EXCEPT ![s] = NoFlight]
  /\ UNCHANGED <<options, installed, phase, request, config, matched, log, outcome,
                 call, result, walk, build>>

NextShared ==
  \/ \E opts \in SharedOptions : setupMockingInterceptor(opts)
  \/ \E s \in 1..MaxFlights, req \in SharedRequests : InterceptFlight(s, req)
  \/ \E s \in 1..MaxFlights : AdapterFlight(s)
  \/ \E s \in 1..MaxFlights : SettleFlight(s)

SpecShared == Init /\ [][NextShared]_vars

\* ------------------------------------------ regeneration in the dev server
\* micromatch.isMatch(file, ["**/name", ...])
isMatch(file, paths) == file \in paths

mockPaths == {"mock.json"}
interfacePaths == {"interface.ts", "type.ts"}
ChangedFiles == {"mock.json", "interface.ts", "main.ts"}

\* what the mock files say after the change
ReloadedRegistries ==
  { RegistryOf(<<RouteUsersMe, RouteUserById>>),
    RegistryOf(<<RouteUserById,
                 Entry(RouteKey("POST", <<Text("users")>>),
                       RegistryValue(UserPage, Undefined, 201, UsersPagination,
                                     JsStr("random"), Undefined))>>) }

\* handleHotUpdate({file, server}): the virtual module is invalidated and a
\* full reload is sent; the page keeps running until the reload takes place
handleHotUpdate(file) ==
  /\ phase = "idle"
  /\ build.stage \in {"new", "watched"}
  /\ build' = IF isMatch(file, mockPaths) \/ isMatch(file, interfacePaths)
              THEN [stage |-> "invalidated", file |-> file]
              ELSE [stage |-> "watched", file |-> file]
  /\ UNCHANGED <<options, installed, phase, request, config, matched, log, outcome,
                 call, result, walk, flights>>

\* load("\0virtual:zomoc"): generateRegistryString starts on the changed files
load(registry) ==
  /\ build.stage = "invalidated"
  /\ build' = [stage |-> "loading", source |-> registry, next |-> 1, urlMapEntries |-> <<>>]
  /\ UNCHANGED <<options, installed, phase, request, config, matched, log, outcome,
                 call, result, walk, flights>>

\* urlMapEntries.push(...) for the next entry of the mock files
PushEntry ==
  /\ build.stage = "loading"
  /\ build.next <= Len(build.source.entries)
  /\ build' = [build EXCEPT !.next = @ + 1,
                            !.urlMapEntries = Append(@, build.source.entries[build.next])]
  /\ UNCHANGED <<options, installed, phase, request, config, matched, log, outcome,
                 call, result, walk, flights>>

\* the registry string is returned, the reloaded page evaluates the module and
\* calls setupMockingInterceptor on its own instance; the requests of the
\* page that was replaced are gone with it
ReloadPage ==
  /\ build.stage = "loading"
  /\ build.next > Len(build.source.entries)
  /\ options' = [options EXCEPT !.registry = RegistryOf(build.urlMapEntries)]
  /\ flights' = NoFlights
  /\ build' = NoBuild
  /\ UNCHANGED <<installed, phase, request, config, matched, log, outcome,
                 call, result, walk>>

NextReload ==
  \/ \E opts \in SharedOptions : setupMockingInterceptor(opts)
  \/ \E s \in 1..MaxFlights, req \in SharedRequests : InterceptFlight(s, req)
  \/ \E s \in 1..MaxFlights : AdapterFlight(s)
  \/ \E s \in 1..MaxFlights : SettleFlight(s)
  \/ \E file \in ChangedFiles : handleHotUpdate(file)
  \/ \E registry \in ReloadedRegistries : load(registry)
  \/ PushEntry
  \/ ReloadPage

SpecReload == Init /\ [][NextReload]_vars

\* ------------------------------------------- direct calls of the synthesizer
Track == ZLiteral(JsStr("track"))
Matrix == ZArray(ZArray(Track))
Playlist == ZArray(Album)
Shelf == ZObject(<<Field("albums", ZArray(Album)), Field("codes", ZOptional(ZArray(Track)))>>)
Pairs == ZArray(ZTuple(<<ZArray(Track), Track>>))
Index == ZRecord(ZArray(Track))


\* type Status = "Pending" | "Success" | "Failed"; interface IStatus { status: Status }
Status == ZUnion(<<ZLiteral(JsStr("Pending")), ZLiteral(JsStr("Success")), ZLiteral(JsStr("Failed"))>>)
IStatus == ZObject(<<Field("status", Status)>>)
Level == ZEnum(<<JsStr("low"), JsStr("high")>>)
\* enum Role { Admin = "ADMIN", User = "USER" } and enum Color { Red, Green }
Role == ZNativeEnum(<<Member("Admin", JsStr("ADMIN")), Member("User", JsStr("USER"))>>)
Color == ZNativeEnum(<<Member("Red", JsNum(0)), Member("Green", JsNum(1))>>)
Figure == ZUnion(<<Track, Tag, ZArray(Track)>>)
Event ==
  ZDiscriminatedUnion(<<ZObject(<<Field("type", ZLiteral(JsStr("created")))>>),
                        ZObject(<<Field("type", ZLiteral(JsStr("deleted"))), Field("at", ZDate)>>)>>)
Account == ZIntersection(MyProfile, UserProfile)
TrackLists == ZIntersection(ZArray(Track), ZArray(Track))

\* type Merged = { id: number; kind: "left" } & { kind: "right"; tag: "track" }
Merged ==
  ZIntersection(ZObject(<<Field("id", ZNumber), Field("kind", ZLiteral(JsStr("left")))>>),
                ZObject(<<Field("kind", ZLiteral(JsStr("right"))), Field("tag", Track)>>))

\* interface Ledger { id: number; amount: bigint; tag: "track" }
Ledger == ZObject(<<Field("id", ZNumber), Field("amount", ZUnknown), Field("tag", Track)>>)

SynthSchemas ==
  { TagList, Matrix, Playlist, Pairs, ZOptional(ZArray(ZNumber)), ZEffects(ZArray(ZString)),
    ZArray(ZNullable(ZArray(Track))),
    Album, Shelf, Index, Tag, UserProfile, ZNumber,
    Status, IStatus, Level, ZArray(Level), ZOptional(Level), Role, Color, Figure, Event,
    Account, TrackLists, ZOptional(Role), ZNullable(ZString), ZEffects(ZNumber), Ledger,
    Merged }

RepeatCounts == {Undefined} \cup {JsNum(n) : n \in 0..MaxRepeat}

\* interface Visitor { name: string; age: number; active: boolean; joined: Date }
Visitor ==
  ZObject(<<Field("name", ZString), Field("age", ZNumber), Field("active", ZBoolean),
            Field("joined", ZDate)>>)

\* any subset of the hooks may be supplied
CustomGenerators ==
  [string : BOOLEAN, number : BOOLEAN, boolean : BOOLEAN, dateTime : BOOLEAN]

SynthCalls ==
  [active : {TRUE}, schema : SynthSchemas, customGenerators : {NoGenerators, AllGenerators},
   repeatCount : RepeatCounts, strategy : {"random", "fixed"}]
  \cup
  [active : {TRUE}, schema : {Visitor, ZString, ZDate}, customGenerators : CustomGenerators,
   repeatCount : {Undefined}, strategy : {"random", "fixed"}]

\* createMockDataFromZodSchema(schema, "", customGenerators, repeatCount, 0, strategy)
Synthesize(c) ==
  /\ ~call.active
  /\ call' = c
  /\ result' \in createMockDataFromZodSchema(c.schema, Key(""), c.customGenerators,
                                             c.repeatCount, 0, c.strategy)
  /\ UNCHANGED <<options, installed, phase, request, config, matched, log, outcome, walk, build, flights>>

\* the caller takes the value
Return ==
  /\ call.active
  /\ call' = NoCall
  /\ result' = Undefined
  /\ UNCHANGED <<options, installed, phase, request, config, matched, log, outcome, walk, build, flights>>

NextSynth ==
  \/ \E c \in SynthCalls : Synthesize(c)
  \/ Return

SpecSynth == Init /\ [][NextSynth]_vars

\* ------------------------------------------- the paginated branch on its own
\* interface Feed { items: Level[]; count: number; page: number; hasNext: boolean }
Feed ==
  ZObject(<<Field("items", ZArray(Level)), Field("count", ZNumber), Field("page", ZNumber),
            Field("hasNext", ZBoolean)>>)

\* paginated registry values: default and configured page and size keys
PageValues ==
  { RegistryValue(Feed, Undefined, 200, Pagination("items", "count", Undefined, Undefined),
                  JsStr("random"), Undefined),
    RegistryValue(Feed, Undefined, 200, Pagination("items", "count", JsStr("p"), JsStr("limit")),
                  JsStr("fixed"), JsNum(1)) }

PageParams ==
  { Undefined, JsObj([page |-> JsNum(2)]), JsObj([size |-> JsNum(3)]),
    JsObj([page |-> JsNum(2), size |-> JsNum(3)]), JsObj([p |-> JsNum(4), limit |-> JsNum(2)]),
    JsObj([size |-> JsStr("3")]) }

PageBodies ==
  { Undefined, JsObj([page |-> JsNum(5), size |-> JsNum(1)]), JsObj([size |-> JsNum(2)]),
    JsObj([p |-> JsNum(6), limit |-> JsNum(1)]) }

PageCalls ==
  [active : {TRUE}, value : PageValues,
   config : {Config(Url(<<"feed">>, ""), "GET", params, data) :
               params \in PageParams, data \in PageBodies}]

\* the `if (pagination)` branch of onFulfilled on a matched entry
Paginate(c) ==
  /\ ~call.active
  /\ call' = c
  /\ result' \in PaginatedMockData(c.value, c.config, NoGenerators)
  /\ UNCHANGED <<options, installed, phase, request, config, matched, log, outcome, walk, build, flights>>

NextPage ==
  \/ \E c \in PageCalls : Paginate(c)
  \/ Return

SpecPage == Init /\ [][NextPage]_vars

\* ------------------------------------------------- the standalone generator
\* the property names every object inherits from Object.prototype
ObjectPrototype == {"toString", "constructor"}

\* an inherited method: a function object without own properties
Inherited == [t |-> "fn"]

\* registry[typeName] on the registry object
Lookup(registry, typeName) ==
  IF typeName \in DOMAIN registry THEN registry[typeName]
  ELSE IF typeName \in ObjectPrototype THEN Inherited
  ELSE Undefined

\* const { name } = v
Destructure(v, name) == IF name \in DOMAIN v THEN v[name] ELSE Undefined

\* the options argument of getZomocGenerator
GeneratorOptions(repeatCount, strategy, page, size) ==
  [repeatCount |-> repeatCount, strategy |-> strategy, page |-> page, size |-> size]

NotRegistered(typeName) == [kind |-> "Error", typeName |-> typeName, synthesis |-> FALSE]
TypeError == [kind |-> "TypeError", synthesis |-> TRUE]
MockDataOf(data) == [kind |-> "returned", data |-> data, synthesis |-> TRUE]

\* The outcomes of getZomocGenerator(typeName, options).
getZomocGenerator(registry, customGenerators, typeName, opts) ==
  LET registryValue == Lookup(registry, typeName)
  IN IF registryValue = Undefined THEN {NotRegistered(typeName)}
     ELSE
       LET schema == Destructure(registryValue, "schema")
           pagination == Destructure(registryValue, "pagination")
           page == Coalesce(opts.page, JsNum(DefaultPage))
           size == Coalesce(opts.size, JsNum(DefaultSize))
       IN IF pagination # Undefined THEN
            IF schema = Undefined \/ "shape" \notin DOMAIN schema THEN {TypeError}
            ELSE IF ShapeField(schema, pagination.itemsKey) = Undefined THEN {TypeError}
            ELSE { MockDataOf(JsObj(ObjectLiteral(
                       << <<pagination.itemsKey, pageData>>,
                          <<pagination.totalKey, JsNum(DummyTotal)>>,
                          <<Coalesce(pagination.pageKey, JsStr("page")).s, page>> >>))) :
                     pageData \in createMockDataFromZodSchema(
                                    ShapeField(schema, pagination.itemsKey), Key(typeName),
                                    customGenerators, size, page.n, StrategyArg(opts.strategy)) }
          ELSE
            LET finalRepeatCount == Coalesce(opts.repeatCount, Destructure(registryValue, "repeatCount"))
                finalStrategy == Coalesce(opts.strategy, Destructure(registryValue, "strategy"))
            IN IF schema = Undefined THEN {TypeError}
               ELSE { MockDataOf(data) :
                        data \in createMockDataFromZodSchema(
                                   schema, Key(typeName), customGenerators, finalRepeatCount, 0,
                                   StrategyArg(finalStrategy)) }

\* the registries a generator is created on: plain and paginated types
TypeRegistries ==
  { [IUser |-> RegistryValue(UserProfile, Undefined, 200, Undefined, JsStr("random"), Undefined),
     ILevels |-> RegistryValue(ZArray(Level), Undefined, 200, Undefined, JsStr("fixed"), JsNum(2))],
    [ILevels |-> RegistryValue(ZArray(Level), Undefined, 200, Undefined, JsStr("random"), JsNum(1)),
     IFeed |-> RegistryValue(Feed, Undefined, 200, Pagination("items", "count", Undefined, Undefined),
                             JsStr("fixed"), JsNum(1))] }

TypeNames == {"IUser", "ILevels", "IFeed", "IGhost", "toString"}

GeneratorCalls ==
  [active : {TRUE}, typeName : TypeNames,
   options : { GeneratorOptions(repeatCount, strategy, Undefined, size) :
                 repeatCount \in {Undefined, JsNum(0), JsNum(3)},
                 strategy \in {Undefined, JsStr("random"), JsStr("fixed")},
                 size \in {Undefined, JsNum(2)} }]

\* createGenerator(registry, customGenerators)
createGenerator(registry, customGenerators) ==
  /\ phase = "new"
  /\ options' = [registry |-> registry, customGenerators |-> customGenerators]
  /\ phase' = "idle"
  /\ UNCHANGED <<installed, request, config, matched, log, outcome, call, result, walk, build,
                 flights>>

\* one call of the function createGenerator returned
Generate(c) ==
  /\ phase = "idle"
  /\ ~call.active
  /\ call' = c
  /\ result' \in getZomocGenerator(options.registry, options.customGenerators, c.typeName, c.options)
  /\ UNCHANGED <<options, installed, phase, request, config, matched, log, outcome, walk, build,
                 flights>>

NextGenerator ==
  \/ \E registry \in TypeRegistries, customGenerators \in {NoGenerators, AllGenerators} :
       createGenerator(registry, customGenerators)
  \/ \E c \in GeneratorCalls : Generate(c)
  \/ Return

SpecGenerator == Init /\ [][NextGenerator]_vars

\* --------------------------------------------- the recursion of the synthesizer
\* one pending call of createMockDataFromZodSchema: its node and repeatCount
Frame(schema, repeatCount) == [schema |-> schema, repeatCount |-> repeatCount]

\* SubCalls on a schema in which every node is its own child
SubCallsOnSelf(frame, strategy) == {<<frame>>}

\* The recursive calls one call makes, in order; one sequence per outcome of
\* its random draws.
SubCalls(frame, strategy) ==
  LET schema == frame.schema
      repeatCount == frame.repeatCount
  IN IF schema.kind \in {"ZodOptional", "ZodNullable"} THEN
       {<<Frame(schema.innerType, repeatCount)>>}
     ELSE IF "schema" \in DOMAIN schema THEN
       {<<Frame(schema.schema, repeatCount)>>}
     ELSE IF schema.kind = "ZodArray" THEN
       { [i \in 1..itemCount |-> Frame(schema.element, ItemRepeatCount(repeatCount))]
           : itemCount \in ItemCounts(repeatCount) }
     ELSE IF schema.kind = "ZodObject" THEN
       { [i \in 1..Len(schema.shape) |-> Frame(schema.shape[i].schema, repeatCount)] }
     ELSE IF schema.kind = "ZodRecord" THEN
       { <<Frame(schema.valueType, repeatCount), Frame(schema.valueType, repeatCount)>> }
     ELSE IF schema.kind = "ZodTuple" THEN
       { [i \in 1..Len(schema.items) |-> Frame(schema.items[i], repeatCount)] }
     ELSE IF schema.kind \in {"ZodUnion", "ZodDiscriminatedUnion"} THEN
       IF Len(schema.options) = 0 THEN {<<>>}
       ELSE IF strategy = "fixed" THEN {<<Frame(schema.options[1], repeatCount)>>}
       ELSE { <<Frame(schema.options[RandomIndex(k, Len(schema.options)) + 1], repeatCount)>>
                : k \in Random }
     ELSE IF schema.kind = "ZodIntersection" THEN
       { <<Frame(schema.left, repeatCount), Frame(schema.right, repeatCount)>> }
     ELSE {<<>>}

WalkCalls ==
  [schema : SynthSchemas, repeatCount : RepeatCounts, strategy : {"random", "fixed"}]

\* createMockDataFromZodSchema(schema, "", undefined, repeatCount, 0, strategy) is entered
Enter(c) ==
  /\ ~walk.active
  /\ walk' = [active |-> TRUE, schema |-> c.schema, repeatCount |-> c.repeatCount,
              strategy |-> c.strategy, stack |-> <<Frame(c.schema, c.repeatCount)>>]
  /\ UNCHANGED <<options, installed, phase, request, config, matched, log, outcome,
                 call, result, build, flights>>

\* the pending call on top of the stack runs up to its recursive calls
Visit ==
  /\ walk.active
  /\ walk.stack # <<>>
  /\ \E subs \in SubCalls(Head(walk.stack), walk.strategy) :
       walk' = [walk EXCEPT !.stack = subs \o Tail(walk.stack)]
  /\ UNCHANGED <<options, installed, phase, request, config, matched, log, outcome,
                 call, result, build, flights>>

\* no call is pending: the outermost call returns
Leave ==
  /\ walk.active
  /\ walk.stack = <<>>
  /\ walk' = NoWalk
  /\ UNCHANGED <<options, installed, phase, request, config, matched, log, outcome,
                 call, result, build, flights>>

NextWalk ==
  \/ \E c \in WalkCalls : Enter(c)
  \/ Visit
  \/ Leave

\* a call that has been entered keeps running
SpecWalk == Init /\ [][NextWalk]_vars /\ WF_vars(Visit) /\ WF_vars(Leave)

\* ------------------------------------------------------ registry generation
\* generateRegistryString, step 6: finalSchemaUrlMap is built from the
\* mock.json files.  A mock file is the list of the entries of its JSON
\* object, or a text JSON.parse rejects.
Null == [t |-> "null"]

\* !v is false
Truthy(v) == v \notin {Undefined, Null, JsBool(FALSE), JsNum(0), JsStr("")}

StatusCodes == {200, 201, 404, 500}

\* String(status)
String(v) == IF v.t = "num" THEN ToString(v.n) ELSE "undefined"

\* Number(key) for the text of a status code
Number(key) == CHOOSE n \in StatusCodes : ToString(n) = key

\* a JSON object whose keys are status codes, in the order of the file
Table(pairs) ==
  [t |-> "obj", f |-> ObjectLiteral(pairs), declared |-> [i \in 1..Len(pairs) |-> pairs[i][1]]]

\* integer keys enumerate in ascending numeric order
RECURSIVE Ascending(_)
Ascending(keys) ==
  IF keys = {} THEN <<>>
  ELSE LET k == CHOOSE k \in keys : \A o \in keys : Number(k) <= Number(o)
       IN <<k>> \o Ascending(keys \ {k})

\* Object.keys(v)
ObjectKeys(v) == IF v.t = "obj" THEN Ascending(DOMAIN v.f) ELSE <<>>

\* camelCase(name, { preserveConsecutiveUppercase: true }) on the type names in use
camelCase(name) ==
  IF name = "UserProfile" THEN "userProfile"
  ELSE IF name = "MyProfile" THEN "myProfile"
  ELSE IF name = "TagList" THEN "tagList"
  ELSE IF name = "UserPage" THEN "userPage"
  ELSE IF name = "Status" THEN "status"
  ELSE IF name = "Ghost" THEN "ghost"
  ELSE name

\* the schema declarations that survived validation, by schema name
survivedSchemaDeclarations ==
  [n \in {"userProfileSchema", "myProfileSchema", "tagListSchema", "userPageSchema",
          "statusSchema"} |->
     IF n = "userProfileSchema" THEN UserProfile
     ELSE IF n = "myProfileSchema" THEN MyProfile
     ELSE IF n = "tagListSchema" THEN TagList
     ELSE IF n = "userPageSchema" THEN UserPage
     ELSE IStatus]

\* `${camelCase(responseType)}Schema`, or undefined without a responseType
SchemaName(responseType) ==
  IF Truthy(responseType) THEN JsStr(camelCase(responseType.s) \o "Schema") ELSE Undefined

\* survivedSchemaDeclarations.has(schemaName)
Survived(schemaName) == schemaName.s \in DOMAIN survivedSchemaDeclarations

\* the value the emitted identifier evaluates to
SchemaValue(schemaName) ==
  IF schemaName = Undefined THEN Undefined ELSE survivedSchemaDeclarations[schemaName.s]

\* console output
Warn(file, key, text) == [level |-> "warn", file |-> file, key |-> key, text |-> text]
Error(file) == [level |-> "error", file |-> file, key |-> <<>>, text |-> "Error processing mock file"]

\* the ways one round of the loop over the entries ends
Continue(console) == [kind |-> "continue", console |-> console]
Push(entry, console) == [kind |-> "push", entry |-> entry, console |-> console]
Throw == [kind |-> "throw", console |-> <<>>]

\* the text appended to urlMapEntries, as the registry entry it evaluates to
UrlEntry(key, schemaName, responseBody, status, pagination, mockingStrategy, repeatCount) ==
  Entry(key, RegistryValue(SchemaValue(schemaName),
                           IF Truthy(responseBody) THEN responseBody ELSE Undefined,
                           status,
                           IF Truthy(pagination) THEN pagination ELSE Undefined,
                           IF Truthy(mockingStrategy) THEN mockingStrategy ELSE JsStr("random"),
                           IF repeatCount = Null THEN Undefined ELSE repeatCount))

\* Response Map Mode of the loop body
ResponseMapMode(file, key, mockConfig) ==
  LET responses == mockConfig.f.responses
      status == Get(mockConfig, "status")
      activeStatusKey == String(status)
  IN IF responses \in {Null, Undefined} THEN Throw
     ELSE
       LET direct == Get(responses, activeStatusKey)
           keys == ObjectKeys(responses)
           fallback == ~Truthy(direct) /\ Len(keys) > 0
           activeResponse == IF fallback THEN responses.f[keys[1]] ELSE direct
           finalStatus == IF fallback THEN Number(keys[1]) ELSE status.n
           console == IF fallback
                      THEN <<Warn(file, key, "status not found in responses, falling back")>>
                      ELSE <<>>
       IN IF ~Truthy(activeResponse) THEN Continue(console)
          ELSE
            LET schemaName == SchemaName(Get(activeResponse, "responseType"))
            IN IF schemaName # Undefined /\ ~Survived(schemaName) THEN Continue(console)
               ELSE Push(UrlEntry(key, schemaName,
                                  Get(activeResponse, "responseBody"), finalStatus,
                                  Get(activeResponse, "pagination"),
                                  Get(activeResponse, "mockingStrategy"),
                                  Get(activeResponse, "repeatCount")), console)

\* Simple Mode of the loop body
SimpleMode(file, key, mockConfig) ==
  IF mockConfig.t = "str" THEN
    IF Truthy(mockConfig) /\ ~Survived(SchemaName(mockConfig)) THEN Continue(<<>>)
    ELSE Push(UrlEntry(key, SchemaName(mockConfig), Undefined, 200, Undefined, Undefined,
                       Undefined), <<>>)
  ELSE IF mockConfig.t = "obj" THEN
    LET console == IF Truthy(Get(mockConfig, "responseBody"))
                   THEN <<Warn(file, key, "responseBody is not supported in simple mode")>>
                   ELSE <<>>
        status == IF Truthy(Get(mockConfig, "status")) THEN Get(mockConfig, "status").n ELSE 200
        schemaName == SchemaName(Get(mockConfig, "responseType"))
    IN IF schemaName # Undefined /\ ~Survived(schemaName) THEN Continue(console)
       ELSE Push(UrlEntry(key, schemaName, Undefined, status,
                          Get(mockConfig, "pagination"), Get(mockConfig, "mockingStrategy"),
                          Get(mockConfig, "repeatCount")), console)
  ELSE Continue(<<>>)

\* one round of `for (const [key, value] of Object.entries(mockMap))`
LoopBody(file, key, mockConfig) ==
  IF mockConfig.t = "obj" /\ "responses" \in DOMAIN mockConfig.f
  THEN ResponseMapMode(file, key, mockConfig)
  ELSE SimpleMode(file, key, mockConfig)

\* the loop over the entries from the i-th on, inside the try block: the
\* entries pushed, the console output, and whether an exception ended it
RECURSIVE LoopFrom(_, _, _)
LoopFrom(file, entries, i) ==
  IF i > Len(entries) THEN [pushed |-> <<>>, console |-> <<>>, threw |-> FALSE]
  ELSE LET r == LoopBody(file, entries[i].key, entries[i].value)
       IN IF r.kind = "throw" THEN [pushed |-> <<>>, console |-> <<>>, threw |-> TRUE]
          ELSE LET rest == LoopFrom(file, entries, i + 1)
               IN [pushed |-> (IF r.kind = "push" THEN <<r.entry>> ELSE <<>>) \o rest.pushed,
                   console |-> r.console \o rest.console,
                   threw |-> rest.threw]

\* try { JSON.parse; the loop } catch (e) { console.error(...) }
TryMockFile(file, mockFile) ==
  IF ~mockFile.parsed THEN [pushed |-> <<>>, console |-> <<Error(file)>>]
  ELSE LET r == LoopFrom(file, mockFile.entries, 1)
       IN [pushed |-> r.pushed,
           console |-> r.console \o (IF r.threw THEN <<Error(file)>> ELSE <<>>)]

\* the object the literal `{ 'key': value, ... }` evaluates to: a repeated
\* key keeps its first place and takes its last value
FinalSchemaUrlMap(urlMapEntries) ==
  LET firsts == {i \in 1..Len(urlMapEntries) :
                   \A j \in 1..(i - 1) : urlMapEntries[j].key # urlMapEntries[i].key}
      last(key) == CHOOSE i \in 1..Len(urlMapEntries) :
                     /\ urlMapEntries[i].key = key
                     /\ \A j \in (i + 1)..Len(urlMapEntries) : urlMapEntries[j].key # key
      RECURSIVE Collect(_)
      Collect(i) ==
        IF i > Len(urlMapEntries) THEN <<>>
        ELSE (IF i \in firsts THEN <<urlMapEntries[last(urlMapEntries[i].key)]>> ELSE <<>>)
             \o Collect(i + 1)
  IN RegistryOf(Collect(1))

\* one entry of a mock.json object
MockEntry(key, value) == [key |-> key, value |-> value]

MockFile(entries) == [parsed |-> TRUE, entries |-> entries]
Unparsable == [parsed |-> FALSE, entries |-> <<>>]

UsersMeKey == RouteKey("GET", <<Text("users"), Text("me")>>)
GhostKey == RouteKey("GET", <<Text("ghost")>>)
BadKey == RouteKey("GET", <<Text("bad")>>)

NotFound == JsObj([responseBody |-> ErrorBody])
Found == JsObj([responseType |-> JsStr("MyProfile")])

\* the entries mock.json files are made of
MockCatalog ==
  { MockEntry(RouteUserById.key, JsStr("UserProfile")),
    MockEntry(RouteKey("POST", <<Text("users")>>),
              JsObj([responseType |-> JsStr("UserPage"), pagination |-> UsersPagination])),
    MockEntry(UsersMeKey,
              JsObj([responses |-> Table(<< <<"404", NotFound>>, <<"200", Found>> >>),
                     status |-> JsNum(404)])),
    MockEntry(UsersMeKey,
              JsObj([responses |-> Table(<< <<"404", NotFound>>, <<"200", Found>> >>),
                     status |-> JsNum(500)])),
    MockEntry(UsersMeKey,
              JsObj([responses |-> Table(<< <<"200", Found>>, <<"404", NotFound>> >>),
                     status |-> JsNum(500)])),
    MockEntry(RouteKey("GET", <<Text("tags")>>),
              JsObj([responseType |-> JsStr("TagList"), mockingStrategy |-> JsStr("fixed"),
                     repeatCount |-> JsNum(2)])),
    MockEntry(GhostKey, JsStr("Ghost")),
    MockEntry(GhostKey,
              JsObj([responses |-> Table(<< <<"200", JsObj([responseType |-> JsStr("Ghost")])>> >>),
                     status |-> JsNum(200)])),
    MockEntry(BadKey, JsNum(5)),
    MockEntry(BadKey, JsObj([responses |-> Null, status |-> JsNum(200)])),
    MockEntry(BadKey, JsObj([responseType |-> JsStr("TagList"), pagination |-> JsStr("users")])),
    MockEntry(RouteKey("GET", <<Text("health")>>), JsObj([responseBody |-> ErrorBody])) }

\* a JSON object has one value per key
MockMaps ==
  { MockFile(e) : e \in
      { e \in UNION { [1..n -> MockCatalog] : n \in 0..MaxEntries } :
          \A i, j \in 1..Len(e) : e[i].key = e[j].key => i = j } }

OtherFile == MockFile(<<MockEntry(RouteKey("GET", <<Text("status")>>), JsStr("Status"))>>)

\* the mock files found by glob(mockPaths), in its order
MockFileLists ==
  UNION { { <<m>>, <<m, OtherFile>>, <<OtherFile, m>>, <<Unparsable, m>> } : m \in MockMaps }

\* generateRegistryString reaches step 6 with the mock files found
generateRegistryString(mockFiles) ==
  /\ build.stage = "new"
  /\ build' = [stage |-> "files", mockFiles |-> mockFiles, next |-> 1,
               urlMapEntries |-> <<>>, console |-> <<>>, finalSchemaUrlMap |-> NoRegistry]
  /\ UNCHANGED <<options, installed, phase, request, config, matched, log, outcome,
                 call, result, walk, flights>>

\* one round of `for (const mockFile of mockFiles)`
ReadMockFile ==
  /\ build.stage = "files"
  /\ build.next <= Len(build.mockFiles)
  /\ LET r == TryMockFile(build.next, build.mockFiles[build.next])
     IN build' = [build EXCEPT !.next = @ + 1,
                               !.urlMapEntries = @ \o r.pushed,
                               !.console = @ \o r.console]
  /\ UNCHANGED <<options, installed, phase, request, config, matched, log, outcome,
                 call, result, walk, flights>>

\* step 7: the registry module is assembled from urlMapEntries
WriteRegistry ==
  /\ build.stage = "files"
  /\ build.next > Len(build.mockFiles)
  /\ build' = [build EXCEPT !.stage = "done",
                            !.finalSchemaUrlMap = FinalSchemaUrlMap(build.urlMapEntries)]
  /\ UNCHANGED <<options, installed, phase, request, config, matched, log, outcome,
                 call, result, walk, flights>>

NextRegistry ==
  \/ \E mockFiles \in MockFileLists : generateRegistryString(mockFiles)
  \/ ReadMockFile
  \/ WriteRegistry

SpecRegistry == Init /\ [][NextRegistry]_vars

\* ================================================================ claims
\* a request has gone through the installed interceptor
Intercepted == installed /\ phase \in {"pending", "done"}

\* the entry's method equals the request's method case-insensitively and
\* its pattern matches the request's url
RouteMatches(entry, req) ==
  /\ Len(entry.key) >= 2
  /\ req.url.present
  /\ req.method # ""
  /\ toUpperCase(entry.key[1]) = toUpperCase(req.method)
  /\ match(entry.key[2], req.url).matched

MatchingEntries(req) ==
  {i \in 1..Len(options.registry.entries) : RouteMatches(options.registry.entries[i], req)}

UsersMeUrl == Url(<<"users", "me">>, "")
ReadmeExample ==
  /\ options.registry.entries = <<RouteUserById, RouteUsersMe>>
  /\ request.url = UsersMeUrl
  /\ toUpperCase(request.method) = "GET"

\* C1: the interceptor uses the first entry, in registry order, whose method
\* equals the request's (case-insensitively) and whose pattern matches the
\* url, and serves the mock from that entry; with the registry
\* ["GET /users/:id" -> A, "GET /users/me" -> B], GET /users/me is served
\* from A with id = "me".
C1_FirstMatchWins ==
  Intercepted =>
    /\ (MatchingEntries(request) = {} => matched = 0)
    /\ (MatchingEntries(request) # {} =>
          /\ matched \in MatchingEntries(request)
          /\ \A j \in MatchingEntries(request) : matched <= j)
    /\ (config.adapter.kind = "mock" =>
          Returned(config.adapter.response.data) \in
            MockData(options.registry.entries[matched].value, request, options.customGenerators))
    /\ (ReadmeExample =>
          /\ matched = 1
          /\ DOMAIN config.adapter.response.data.f = {"name", "password"}
          /\ (options.debug =>
                \E l \in 1..Len(log) :
                  /\ log[l].line = "Matched Params"
                  /\ log[l].params = [id |-> "me"]))

C1_Witness ==
  /\ installed
  /\ phase = "done"
  /\ ReadmeExample
  /\ options.debug
  /\ MatchingEntries(request) = {1, 2}
  /\ matched = 1
  /\ outcome.kind = "resolved"

\* C2: whenever the enabled interceptor finds a matching entry, the adapter
\* is replaced by one that completes at once with the mock result, and the
\* real network call is never issued.
C2_MatchReplacesAdapter ==
  (Intercepted /\ MatchingEntries(request) # {}) =>
    /\ config.adapter.kind = "mock"
    /\ outcome.kind \notin {"network", "threw"}
    /\ (phase = "done" =>
          /\ outcome.kind = "resolved"
          /\ outcome.response = config.adapter.response)

\* C3: when no entry matches the request's method and url, onFulfilled
\* returns the configuration unmodified and raises no error, and the request
\* goes to the real network.
C3_NoMatchPassesThrough ==
  (Intercepted /\ MatchingEntries(request) = {}) =>
    /\ config = request
    /\ matched = 0
    /\ outcome.kind # "threw"
    /\ (phase = "done" => outcome.kind = "network")

C3_Witness ==
  /\ installed
  /\ phase = "done"
  /\ request.url.present
  /\ request.method = "POST"
  /\ MatchingEntries(request) = {}
  /\ \E i \in 1..Len(options.registry.entries) :
       /\ Len(options.registry.entries[i].key) >= 2
       /\ toUpperCase(options.registry.entries[i].key[1]) = "GET"
       /\ match(options.registry.entries[i].key[2], request.url).matched
  /\ config = request
  /\ outcome.kind = "network"

\* C4: set up with enabled = false, or without a registry, every request
\* passes through unmodified, whatever its method and url.
C4_DisabledPassesThrough ==
  ((options.enabled = JsBool(FALSE) \/ ~options.registry.present)
     /\ phase \in {"pending", "done"}) =>
    /\ config = request
    /\ matched = 0
    /\ log = <<>>
    /\ (phase = "done" => outcome.kind = "network")

C4_Witness ==
  /\ phase = "done"
  /\ options.enabled = JsBool(FALSE)
  /\ MatchingEntries(request) # {}
  /\ config = request
  /\ outcome.kind = "network"

\* C5: for a matched route a descriptor status >= 400 ends the mocked
\* request in a rejection, and a status < 400 resolves it with a response
\* whose status is the descriptor's.
C5_StatusDecidesOutcome ==
  (Intercepted /\ phase = "done" /\ matched # 0 /\ outcome.kind # "threw") =>
    LET status == options.registry.entries[matched].value.status
    IN /\ (status >= 400 => outcome.kind = "rejected")
       /\ (status < 400 => outcome.kind = "resolved" /\ outcome.response.status = status)

\* C6: a matched descriptor with both a literal responseBody and a schema
\* is answered with the literal body verbatim.
C6_BodyOverrideWins ==
  (Intercepted /\ matched # 0
     /\ options.registry.entries[matched].value.responseBody # Undefined
     /\ options.registry.entries[matched].value.schema # Undefined) =>
    /\ config.adapter.kind = "mock"
    /\ config.adapter.response.data = options.registry.entries[matched].value.responseBody

\* C7: a matched descriptor with neither responseBody nor schema is still
\* answered with a mocked response; nothing is thrown and the request does
\* not go to the network.
C7_PlaceholderBody ==
  (Intercepted /\ matched # 0
     /\ options.registry.entries[matched].value.responseBody = Undefined
     /\ options.registry.entries[matched].value.schema = Undefined) =>
    /\ outcome.kind \notin {"threw", "network"}
    /\ config.adapter.kind = "mock"

\* C8: a url that is a matching path followed by "?key=value" matches the
\* same registry entry as the path alone.
C8_QueryIgnored ==
  (Intercepted /\ request.url.present /\ request.method # "" /\ request.url.query # "") =>
    matched = ScanRegistry(options.registry.entries, 1, toUpperCase(request.method),
                           [request.url EXCEPT !.query = ""])

\* optional, nullable and effects wrappers removed
RECURSIVE Unwrap(_)
Unwrap(schema) ==
  IF schema.kind \in {"ZodOptional", "ZodNullable"} THEN Unwrap(schema.innerType)
  ELSE IF schema.kind = "ZodEffects" THEN Unwrap(schema.schema)
  ELSE schema

\* every array node of the schema produced 1, 2 or 3 items in the value
RECURSIVE ArraysUnset(_, _)
ArraysUnset(schema, v) ==
  LET s == Unwrap(schema)
  IN IF s.kind = "ZodArray" THEN
       /\ v.t = "arr"
       /\ Len(v.items) \in 1..3
       /\ \A i \in 1..Len(v.items) : ArraysUnset(s.element, v.items[i])
     ELSE IF s.kind = "ZodObject" THEN
       /\ v.t = "obj"
       /\ \A i \in 1..Len(s.shape) : ArraysUnset(s.shape[i].schema, v.f[s.shape[i].name])
     ELSE IF s.kind = "ZodRecord" THEN
       /\ v.t = "obj"
       /\ \A k \in DOMAIN v.f : ArraysUnset(s.valueType, v.f[k])
     ELSE IF s.kind = "ZodTuple" THEN
       /\ v.t = "arr"
       /\ \A i \in 1..Len(s.items) : ArraysUnset(s.items[i], v.items[i])
     ELSE TRUE

\* C9: an array schema without a repeat count yields 1, 2 or 3 items; with
\* a repeat count n (a count: n >= 0) it yields exactly n items; the arrays
\* nested inside each item do not inherit n and have 1, 2 or 3 items.
C9_ArrayLength ==
  (call.active /\ Unwrap(call.schema).kind = "ZodArray") =>
    /\ result.t = "arr"
    /\ (call.repeatCount = Undefined => Len(result.items) \in 1..3)
    /\ (IsNumber(call.repeatCount) => Len(result.items) = call.repeatCount.n)
    /\ \A i \in 1..Len(result.items) :
         ArraysUnset(Unwrap(call.schema).element, result.items[i])

C9_Witness ==
  /\ call.active
  /\ call.schema = Playlist
  /\ call.repeatCount = JsNum(MaxRepeat)
  /\ Len(result.items) = MaxRepeat
  /\ Len(result.items[1].f["tracks"].items) = 1
  /\ Len(result.items[MaxRepeat].f["tracks"].items) = 3

\* C10: a repeatCount applied to an object schema does not affect the
\* arrays inside the object: each array field has 1, 2 or 3 items.
C10_ObjectIgnoresRepeatCount ==
  (call.active /\ call.schema.kind = "ZodObject" /\ IsNumber(call.repeatCount)) =>
    \A i \in 1..Len(call.schema.shape) :
      Unwrap(call.schema.shape[i].schema).kind = "ZodArray" =>
        Len(result.f[call.schema.shape[i].name].items) \in 1..3

\* the entry at which the loop broke
MatchedEntry == options.registry.entries[matched]

\* the matched route is paginated over an object schema with an array at itemsKey
PaginatedRoute ==
  /\ Intercepted
  /\ matched # 0
  /\ MatchedEntry.value.pagination # Undefined
  /\ MatchedEntry.value.schema # Undefined
  /\ MatchedEntry.value.schema.kind = "ZodObject"
  /\ ShapeField(MatchedEntry.value.schema, MatchedEntry.value.pagination.itemsKey) # Undefined
  /\ Unwrap(ShapeField(MatchedEntry.value.schema,
                       MatchedEntry.value.pagination.itemsKey)).kind = "ZodArray"

\* the value the request carries under a key: query parameters, else body
Carried(req, name) == Coalesce(Get(req.params, name), Get(req.data, name))

\* the number a carried size stands for
SizeOf(v) ==
  IF v.t = "num" THEN v.n
  ELSE IF v = JsStr("3") THEN 3
  ELSE -1

\* C11: on a paginated route a request carrying size = s is answered with
\* exactly s items under itemsKey; a request carrying neither page nor size
\* is answered with exactly 10 items and page 1.
C11_PaginationSize ==
  PaginatedRoute =>
    LET pagination == MatchedEntry.value.pagination
        pageKey == Coalesce(pagination.pageKey, JsStr("page")).s
        sizeKey == Coalesce(pagination.sizeKey, JsStr("size")).s
        size == Carried(request, sizeKey)
        page == Carried(request, pageKey)
    IN /\ outcome.kind # "threw"
       /\ config.adapter.kind = "mock"
       /\ LET body == config.adapter.response.data
          IN /\ body.f[pagination.itemsKey].t = "arr"
             /\ (size # Undefined =>
                   Len(body.f[pagination.itemsKey].items) = SizeOf(size))
             /\ (size = Undefined /\ page = Undefined =>
                   /\ Len(body.f[pagination.itemsKey].items) = DefaultSize
                   /\ body.f[pageKey] = JsNum(DefaultPage))

\* the options a selecting node may take: the first under "fixed", any otherwise
Choices(mode, n) == IF mode = "fixed" THEN {1} ELSE 1..n

FieldNames(schema) == {schema.shape[i].name : i \in 1..Len(schema.shape)}

\* The value v is a value of the schema.  mode "shape" compares containers
\* and primitive types only; "any" also requires every enum, union and
\* discriminated union to hold one of its declared options; "fixed" requires
\* it to hold the first.
RECURSIVE Matches(_, _, _)
Matches(schema, v, mode) ==
  LET s == Unwrap(schema)
  IN IF s.kind = "ZodArray" THEN
       /\ v.t = "arr"
       /\ \A i \in 1..Len(v.items) : Matches(s.element, v.items[i], mode)
     ELSE IF s.kind = "ZodTuple" THEN
       /\ v.t = "arr"
       /\ Len(v.items) = Len(s.items)
       /\ \A i \in 1..Len(s.items) : Matches(s.items[i], v.items[i], mode)
     ELSE IF s.kind = "ZodObject" THEN
       /\ v.t = "obj"
       /\ DOMAIN v.f = FieldNames(s)
       /\ \A i \in 1..Len(s.shape) : Matches(s.shape[i].schema, v.f[s.shape[i].name], mode)
     ELSE IF s.kind = "ZodRecord" THEN
       /\ v.t = "obj"
       /\ \A k \in DOMAIN v.f : Matches(s.valueType, v.f[k], mode)
     ELSE IF s.kind = "ZodEnum" THEN
       mode = "shape" \/ \E i \in Choices(mode, Len(s.options)) : v = s.options[i]
     ELSE IF s.kind = "ZodNativeEnum" THEN
       mode = "shape" \/ \E i \in Choices(mode, Len(s.members)) : v = s.members[i].value
     ELSE IF s.kind \in {"ZodUnion", "ZodDiscriminatedUnion"} THEN
       \E i \in Choices(mode, Len(s.options)) : Matches(s.options[i], v, mode)
     ELSE IF s.kind = "ZodIntersection" THEN
       \/ mode # "shape"
       \/ IF Unwrap(s.left).kind = "ZodObject" /\ Unwrap(s.right).kind = "ZodObject" THEN
            /\ v.t = "obj"
            /\ DOMAIN v.f = FieldNames(Unwrap(s.left)) \cup FieldNames(Unwrap(s.right))
            /\ \A name \in DOMAIN v.f :
                 Matches(IF name \in FieldNames(Unwrap(s.right))
                         THEN ShapeField(Unwrap(s.right), name)
                         ELSE ShapeField(Unwrap(s.left), name), v.f[name], mode)
          ELSE Matches(s.left, v, mode) /\ Matches(s.right, v, mode)
     ELSE IF s.kind = "ZodLiteral" THEN v = s.value
     ELSE IF s.kind \in {"ZodString", "ZodDate"} THEN v.t = "str"
     ELSE IF s.kind = "ZodNumber" THEN v.t = "num"
     ELSE IF s.kind = "ZodBoolean" THEN v.t = "bool"
     ELSE TRUE

\* C12: under strategy "fixed" every enum, union and discriminated-union
\* node holds its first declared option: the first enum value, the value
\* synthesized for the first union member or first discriminant branch.
C12_FixedSelectsFirst ==
  (call.active /\ call.strategy = "fixed") => Matches(call.schema, result, "fixed")

\* the node selects one of its declared options
Selecting(schema) ==
  Unwrap(schema).kind \in {"ZodEnum", "ZodNativeEnum", "ZodUnion", "ZodDiscriminatedUnion"}

OptionCount(schema) ==
  IF Unwrap(schema).kind = "ZodNativeEnum" THEN Len(Unwrap(schema).members)
  ELSE Len(Unwrap(schema).options)

\* v is the i-th declared option of the node: the enum value itself, or a
\* value of the i-th member of a union
Picks(schema, i, v) ==
  LET s == Unwrap(schema)
  IN IF s.kind = "ZodEnum" THEN v = s.options[i]
     ELSE IF s.kind = "ZodNativeEnum" THEN v = s.members[i].value
     ELSE Matches(s.options[i], v, "any")

\* C13: under strategy "random" an enum, union or discriminated union with N
\* declared options can yield each of the N options, and yields nothing but
\* one of them; a union yields a value of the chosen member.
C13_RandomCoversOptions ==
  (call.active /\ call.strategy = "random" /\ Selecting(call.schema)) =>
    /\ \E i \in 1..OptionCount(call.schema) : Picks(call.schema, i, result)
    /\ \A i \in 1..OptionCount(call.schema) :
         \E v \in createMockDataFromZodSchema(call.schema, Key(""), call.customGenerators,
                                              call.repeatCount, 0, "random") :
           Picks(call.schema, i, v)

\* C14: the value synthesized for an acyclic schema of supported node kinds
\* matches the schema structurally: an object node gives a mapping whose
\* key set is the node's field set, an array or tuple node gives a sequence,
\* at every nesting level.
C14_StructuralConformance ==
  call.active => Matches(call.schema, result, "shape")

\* C15: the synthesis of a finite acyclic schema with a finite repeat count
\* terminates: every call that is entered returns.
C15_SynthesisTerminates == walk.active ~> ~walk.active

C15_Witness ==
  /\ walk.active
  /\ walk.schema = Playlist
  /\ walk.repeatCount = JsNum(MaxRepeat)
  /\ walk.stack = <<>>

\* generateRegistryString has run to its end
Generated == build.stage = "done"

\* the values finalSchemaUrlMap holds under a key
RegisteredValues(key) ==
  { build.finalSchemaUrlMap.entries[i].value :
      i \in {j \in 1..Len(build.finalSchemaUrlMap.entries) :
               build.finalSchemaUrlMap.entries[j].key = key} }

Registered(key) == RegisteredValues(key) # {}

\* a warning about the entry was printed
Warned(key) ==
  \E i \in 1..Len(build.console) :
    build.console[i].level = "warn" /\ build.console[i].key = key

\* the type names of the project's interface files
RegisteredTypes == {"UserProfile", "MyProfile", "TagList", "UserPage", "Status"}

KnownType(responseType) == responseType = Undefined \/ responseType.s \in RegisteredTypes

IsResponseMap(v) == v.t = "obj" /\ "responses" \in DOMAIN v.f

\* a response definition whose pagination, if any, is an object
WellFormedDefinition(v) ==
  /\ v.t = "obj"
  /\ \/ Get(v, "pagination") = Undefined
     \/ "itemsKey" \in DOMAIN Get(v, "pagination")

\* a value of mock.json in one of the three documented formats
WellFormed(v) ==
  \/ v.t = "str"
  \/ ~IsResponseMap(v) /\ WellFormedDefinition(v)
  \/ /\ IsResponseMap(v)
     /\ v.f.responses.t = "obj"
     /\ \A k \in DOMAIN v.f.responses.f : WellFormedDefinition(v.f.responses.f[k])

\* every type the value names is registered
TypesKnown(v) ==
  IF v.t = "str" THEN KnownType(v)
  ELSE IF IsResponseMap(v)
  THEN \A k \in DOMAIN v.f.responses.f : KnownType(Get(v.f.responses.f[k], "responseType"))
  ELSE KnownType(Get(v, "responseType"))

CleanFile(mockFile) ==
  /\ mockFile.parsed
  /\ \A i \in 1..Len(mockFile.entries) : WellFormed(mockFile.entries[i].value)

\* C16: a response-map entry is registered from the descriptor at its
\* configured status; when the responses table has no such status, from the
\* first status declared in the table, whose code becomes the entry's
\* status, and a warning is printed.
C16_ResponseMapSelection ==
  Generated =>
    \A f \in 1..Len(build.mockFiles) :
      CleanFile(build.mockFiles[f]) =>
        \A e \in 1..Len(build.mockFiles[f].entries) :
          LET key == build.mockFiles[f].entries[e].key
              value == build.mockFiles[f].entries[e].value
          IN (IsResponseMap(value) /\ TypesKnown(value)
                /\ value.f.responses.declared # <<>>) =>
               LET table == value.f.responses
                   present == String(Get(value, "status")) \in DOMAIN table.f
                   chosen == IF present THEN String(Get(value, "status")) ELSE table.declared[1]
                   descriptor == table.f[chosen]
               IN /\ Registered(key)
                  /\ \A v \in RegisteredValues(key) :
                       /\ v.status = Number(chosen)
                       /\ v.schema = SchemaValue(SchemaName(Get(descriptor, "responseType")))
                       /\ v.responseBody = Get(descriptor, "responseBody")
                  /\ (~present => Warned(key))

\* the response definition in force names a type that is not registered
ReferencesUnknownType(v) ==
  IF v.t = "str" THEN ~KnownType(v)
  ELSE IF IsResponseMap(v)
  THEN /\ String(Get(v, "status")) \in DOMAIN v.f.responses.f
       /\ ~KnownType(Get(v.f.responses.f[String(Get(v, "status"))], "responseType"))
  ELSE ~KnownType(Get(v, "responseType"))

\* C17: a route whose response type is not a registered type is still
\* registered, without a schema, and a warning about it is printed.
C17_UnknownTypeStillRegistered ==
  Generated =>
    \A f \in 1..Len(build.mockFiles) :
      CleanFile(build.mockFiles[f]) =>
        \A e \in 1..Len(build.mockFiles[f].entries) :
          LET key == build.mockFiles[f].entries[e].key
              value == build.mockFiles[f].entries[e].value
          IN ReferencesUnknownType(value) =>
               /\ Registered(key)
               /\ \A v \in RegisteredValues(key) : v.schema = Undefined
               /\ Warned(key)

\* the malformed entries of a mock file
MalformedEntries(mockFile) ==
  {i \in 1..Len(mockFile.entries) : ~WellFormed(mockFile.entries[i].value)}

\* something was printed about the entry, or about its file
Reported(f, key) ==
  \E i \in 1..Len(build.console) :
    \/ build.console[i].key = key
    \/ build.console[i].level = "error" /\ build.console[i].file = f

\* C18: when a mock file holds one malformed entry, that entry is skipped
\* with a report, and every well-formed entry before and after it in the
\* file, and in every other mock file, is registered.
C18_MalformedEntrySkipped ==
  Generated =>
    \A f \in 1..Len(build.mockFiles) :
      (build.mockFiles[f].parsed /\ Cardinality(MalformedEntries(build.mockFiles[f])) = 1) =>
        /\ \A e \in 1..Len(build.mockFiles[f].entries) :
             LET key == build.mockFiles[f].entries[e].key
                 value == build.mockFiles[f].entries[e].value
             IN IF e \in MalformedEntries(build.mockFiles[f])
                THEN ~Registered(key) /\ Reported(f, key)
                ELSE TypesKnown(value) => Registered(key)
        /\ \A g \in 1..Len(build.mockFiles) :
             (g # f /\ build.mockFiles[g].parsed) =>
               \A e \in 1..Len(build.mockFiles[g].entries) :
                 (WellFormed(build.mockFiles[g].entries[e].value)
                    /\ TypesKnown(build.mockFiles[g].entries[e].value)) =>
                   Registered(build.mockFiles[g].entries[e].key)

\* C19: a paginated route whose schema is not an object holding an array at
\* itemsKey is a configuration error, not a crash: handling a matching
\* request does not throw out of the interceptor.
C19_MisconfiguredPaginationDoesNotThrow ==
  (Intercepted /\ matched # 0 /\ MatchedEntry.value.pagination # Undefined
     /\ MatchedEntry.value.schema # Undefined /\ ~PaginatedRoute) =>
    outcome.kind # "threw"

\* C20: handling requests, in any order and interleaving, never changes the
\* registry or its schema nodes, and what each request in flight got is one
\* of the results of onFulfilled on that request and the registry as set up.
C20_ResolutionLeavesRegistry ==
  /\ [][phase # "new" => options' = options]_vars
  /\ [](\A s \in 1..MaxFlights :
          flights[s].phase # "idle" =>
            \E r \in onFulfilled(options @@ [isServer |-> FALSE], flights[s].request) :
              /\ r.config = flights[s].config
              /\ r.matched = flights[s].matched
              /\ r.threw = (flights[s].outcome.kind = "threw"))

C20_Witness ==
  /\ installed
  /\ options.debug
  /\ flights[1].phase = "done"
  /\ flights[1].matched = 1
  /\ flights[1].outcome.kind = "resolved"
  /\ flights[2].phase = "pending"
  /\ flights[2].matched = 2
  /\ flights[2].request # flights[1].request
  /\ options.registry.entries[2].value.pagination # Undefined

Wrapper(schema) == schema.kind \in {"ZodOptional", "ZodNullable", "ZodEffects"}

Inner(schema) == IF schema.kind = "ZodEffects" THEN schema.schema ELSE schema.innerType

\* C22: the value synthesized for an optional, nullable or effects node is a
\* value synthesized for its inner node under the same key, generators,
\* repeat count and strategy, and it is neither null nor undefined.
C22_WrapperNeverAbsent ==
  (call.active /\ Wrapper(call.schema)) =>
    /\ result \in createMockDataFromZodSchema(Inner(call.schema), Key(""), call.customGenerators,
                                              call.repeatCount, 0, call.strategy)
    /\ result # Undefined
    /\ result # Null

\* the object schema without the fields of an unrecognized kind
Recognized(schema) ==
  ZObject(SelectSeq(schema.shape, LAMBDA field : field.schema # ZUnknown))

UnrecognizedFields(schema) ==
  {schema.shape[i].name : i \in {j \in 1..Len(schema.shape) : schema.shape[j].schema = ZUnknown}}

\* the object without the given keys
Without(v, names) == JsObj([name \in DOMAIN v.f \ names |-> v.f[name]])

\* the console holds a warning about the field
WarnedField(name) ==
  \E i \in 1..Len(log) : "level" \in DOMAIN log[i] /\ log[i].level = "warn" /\ log[i].key = name

\* C23: a field of an unrecognized kind holds the sentinel, a warning naming
\* the field is on the console, and the other fields of the object are what
\* synthesis of the object without that field gives.
C23_UnrecognizedKind ==
  (call.active /\ call.schema.kind = "ZodObject" /\ UnrecognizedFields(call.schema) # {}) =>
    /\ result.t = "obj"
    /\ \A name \in UnrecognizedFields(call.schema) :
         /\ result.f[name] = Unhandled
         /\ WarnedField(name)
    /\ Without(result, UnrecognizedFields(call.schema)) \in
         createMockDataFromZodSchema(Recognized(call.schema), Key(""), call.customGenerators,
                                     call.repeatCount, 0, call.strategy)

\* the primitive nodes of a call: the node itself or the fields of the object
PrimitiveKinds == {"ZodString", "ZodNumber", "ZodBoolean", "ZodDate"}

\* v is what the node of that kind holds when its hook is supplied
FromHook(kind, name, v) ==
  IF kind = "ZodString" THEN v = [t |-> "str", s |-> "hook", key |-> [name |-> name, idx |-> <<>>]]
  ELSE IF kind = "ZodNumber" THEN v = JsNum(7)
  ELSE IF kind = "ZodBoolean" THEN v = JsBool(TRUE)
  ELSE v = [t |-> "str", s |-> "hook date"]

\* v is a value of the default generator of that kind
FromDefault(kind, name, v) ==
  IF kind = "ZodString" THEN \E k \in Random : v = getRandomString(Key(name), k)
  ELSE IF kind = "ZodNumber" THEN \E k \in Random : v = getRandomNumber(k)
  ELSE IF kind = "ZodBoolean" THEN \E k \in Random : v = getRandomBoolean(k)
  ELSE v = getRandomDateTime

Supplied(generators, kind) ==
  IF kind = "ZodString" THEN generators.string
  ELSE IF kind = "ZodNumber" THEN generators.number
  ELSE IF kind = "ZodBoolean" THEN generators.boolean
  ELSE generators.dateTime

HookWins(generators, kind, name, v) ==
  IF Supplied(generators, kind) THEN FromHook(kind, name, v) ELSE FromDefault(kind, name, v)

C25_DebugDoesNotDecide ==
  Intercepted =>
    /\ \E isServer \in BOOLEAN :
         \E r \in onFulfilled([options EXCEPT !.debug = ~options.debug] @@ [isServer |-> isServer],
                              request) :
           /\ r.config = config
           /\ r.matched = matched
           /\ r.threw = (outcome.kind = "threw")
           /\ phase = "done" /\ ~r.threw => outcome = Dispatch(r.config)
    /\ ~options.debug => log = <<>>

C25_Witness ==
  /\ Intercepted
  /\ options.debug
  /\ matched # 0
  /\ Len(log) >= 4
  /\ outcome.kind = "resolved"

\* the key a pagination setting names, or its default
KeyOr(configured, default) == IF configured = Undefined THEN default ELSE configured.s

\* the value for a key: query parameters first, then body, then the default
Taken(cfg, name, default) ==
  IF Get(cfg.params, name) # Undefined THEN Get(cfg.params, name)
  ELSE IF Get(cfg.data, name) # Undefined THEN Get(cfg.data, name)
  ELSE JsNum(default)

\* C26: page and size are each taken from the query parameters under the
\* configured key, else from the body under that key, else 1 and 10; the keys
\* default to "page" and "size".  The page is the one echoed, the size is the
\* number of items.
C26_PageAndSizeSource ==
  (call.active /\ ~result.threw) =>
    LET pagination == call.value.pagination
        pageKey == KeyOr(pagination.pageKey, "page")
        sizeKey == KeyOr(pagination.sizeKey, "size")
        size == Taken(call.config, sizeKey, 10)
        items == result.data.f[pagination.itemsKey].items
    IN /\ result.data.f[pageKey] = Taken(call.config, pageKey, 1)
       /\ IF size.t = "num" THEN Len(items) = size.n ELSE Len(items) \in 1..3

C26_Witness ==
  /\ call.active
  /\ ~result.threw
  /\ call.value.pagination.pageKey = JsStr("p")
  /\ call.config.params = JsObj([size |-> JsNum(3)])
  /\ call.config.data = JsObj([p |-> JsNum(6), limit |-> JsNum(1)])
  /\ result.data.f["p"] = JsNum(6)
  /\ Len(result.data.f["items"].items) = 1

\* C27: the body of a paginated response has exactly the keys itemsKey,
\* totalKey and pageKey: the items, a total that is the same number whatever
\* the page and the size, and the page of the request; no other field of the
\* object schema is in it.
C27_PaginatedBodyKeys ==
  (call.active /\ ~result.threw) =>
    LET pagination == call.value.pagination
        pageKey == KeyOr(pagination.pageKey, "page")
        body == result.data
    IN /\ body.t = "obj"
       /\ DOMAIN body.f = {pagination.itemsKey, pagination.totalKey, pageKey}
       /\ Cardinality(DOMAIN body.f) = 3
       /\ body.f[pagination.itemsKey].t = "arr"
       /\ body.f[pagination.totalKey] = JsNum(100)
       /\ body.f[pageKey] = Taken(call.config, pageKey, 1)
       /\ FieldNames(call.value.schema) \ {pagination.itemsKey, pagination.totalKey, pageKey}
            # {}

C27_Witness ==
  /\ call.active
  /\ ~result.threw
  /\ call.value.pagination.pageKey = Undefined
  /\ call.config.params = JsObj([page |-> JsNum(2), size |-> JsNum(3)])
  /\ DOMAIN result.data.f = {"items", "count", "page"}
  /\ result.data.f["count"] = JsNum(100)
  /\ result.data.f["page"] = JsNum(2)
  /\ "hasNext" \in FieldNames(call.value.schema)

\* C28: the value of an intersection is an object whose keys are the keys of
\* a value synthesized for the left branch and of a value synthesized for the
\* right branch, both under the call's key, generators, repeat count and
\* strategy; a key of the right value holds the right value's entry, any
\* other key the left value's.
C28_IntersectionMerge ==
  (call.active /\ call.schema.kind = "ZodIntersection") =>
    \E l \in createMockDataFromZodSchema(call.schema.left, Key(""), call.customGenerators,
                                         call.repeatCount, 0, call.strategy),
       r \in createMockDataFromZodSchema(call.schema.right, Key(""), call.customGenerators,
                                         call.repeatCount, 0, call.strategy) :
      /\ result.t = "obj"
      /\ DOMAIN result.f = (DOMAIN Spread(l)) \cup (DOMAIN Spread(r))
      /\ \A name \in DOMAIN Spread(r) : result.f[name] = Spread(r)[name]
      /\ \A name \in (DOMAIN Spread(l)) \ (DOMAIN Spread(r)) : result.f[name] = Spread(l)[name]

C28_Witness ==
  /\ call.active
  /\ call.schema = Merged
  /\ call.customGenerators = AllGenerators
  /\ DOMAIN result.f = {"id", "kind", "tag"}
  /\ result.f["kind"] = JsStr("right")
  /\ result.f["id"] = JsNum(7)

\* the call names a type of the registry
RegisteredCall == call.active /\ call.typeName \in DOMAIN options.registry

\* the setting the caller passed, or the registry entry's
Effective(passed, configured) == IF passed # Undefined THEN passed ELSE configured

\* C29: the data of a registered type is synthesized under the repeat count
\* and the strategy the caller passed, and under the registry entry's for
\* each one the caller left out; for a paginated type this is required of
\* the strategy of its items.
C29_CallOptionsFirst ==
  RegisteredCall =>
    LET value == options.registry[call.typeName]
        repeatCount == Effective(call.options.repeatCount, value.repeatCount)
        strategy == Effective(call.options.strategy, value.strategy).s
    IN /\ result.kind = "returned"
       /\ IF value.pagination = Undefined
          THEN result.data \in createMockDataFromZodSchema(
                                 value.schema, Key(call.typeName), options.customGenerators,
                                 repeatCount, 0, strategy)
          ELSE Matches(ShapeField(value.schema, value.pagination.itemsKey),
                       result.data.f[value.pagination.itemsKey],
                       IF strategy = "fixed" THEN "fixed" ELSE "any")

\* C30: a call with a name that is not a key of the registry ends with the
\* error naming that name: no data, no call of the synthesizer.
C30_UnknownNameRaises ==
  (call.active /\ call.typeName \notin DOMAIN options.registry) =>
    /\ result.kind = "Error"
    /\ result.typeName = call.typeName
    /\ ~result.synthesis

====
